---- MODULE Spec2Model ----
(***************************************************************************)
(* FlowState tap station: the event log, the ingestion endpoint            *)
(* (/api/ingest) and the metrics derived from the log by the dashboard     *)
(* and status endpoints of src/tap_station/web_server.py.                  *)
(*                                                                         *)
(* Times are integer milliseconds since the epoch (the resolution of the   *)
(* timestamp_ms field of an ingested item).  A stored timestamp is the     *)
(* instant its ISO-8601 text denotes.                                      *)
(***************************************************************************)
EXTENDS Integers, Sequences, FiniteSets, TLC

VARIABLES
    events,   \* the events table: a sequence of rows, row i has id i
    now,      \* the wall clock, in ms
    calls,    \* the /api/ingest calls in flight, per worker thread
    resp      \* the response of the last call that returned

vars == <<events, now, calls, resp>>

---------------------------------------------------------------------------
(* Bounds of the model *)

MaxEvents == 3      \* rows the events table may hold
MaxBatch == 2       \* items of one request of the concurrent calls

(* Program constants *)

MsPerSecond == 1000          \* int(ts_val) / 1000
SecondsPerMinute == 60       \* total_seconds() / 60
MaxBatchItems == 1000        \* len(events) > 1000
MaxIdLen == 100              \* len(token_id) > 100 or len(uid) > 100
MaxStageLen == 50            \* len(stage) > 50
DefaultEstimate == 20        \* ... else 20
MinutesPerHead == 2          \* in_queue * 2
AvgWaitLimit == 10           \* _calculate_avg_wait_time(limit=10)
DashboardAvgLimit == 20      \* _calculate_avg_wait_time(limit=20)
CompletionsLimit == 10       \* _get_recent_completions(limit=10)
MaxPerHour == 12             \* completed_last_hour / 12
QueueWarn == 10
QueueCritical == 20
WaitWarn == 45
WaitCritical == 90
CapacityInfo == 90
QueueModerate == 5
WaitModerate == 30

MsPerMinute == MsPerSecond * SecondsPerMinute
MsPerHour == 60 * MsPerMinute
MsPerDay == 24 * MsPerHour

SessionId == "S1"            \* self.config.session_id

---------------------------------------------------------------------------
(* The instants of the model: the clock moves through Times *)

T0 == 1000 * MsPerMinute

Times ==
    { T0,
      T0 + 37 * MsPerMinute,
      T0 + 37 * MsPerMinute + 45 * MsPerSecond }

(* the timestamps a sender supplies: within the second of T0, and well     *)
(* before it (an event uploaded late)                                      *)
SameSecond == T0 + 500
Earlier == T0 - 9 * MsPerMinute

NULL == 0     \* SQL NULL / Python None for an id or a timestamp

(* int(x) of a quotient: Python truncates toward zero *)
Trunc(a, b) == IF a >= 0 THEN a \div b ELSE -((-a) \div b)

RECURSIVE SumSeq(_)
SumSeq(s) == IF s = <<>> THEN 0 ELSE Head(s) + SumSeq(Tail(s))

SeqToSet(s) == { s[i] : i \in 1..Len(s) }

---------------------------------------------------------------------------
(* Ingestion: the items of a request body *)

(* The JSON value of a timestamp field.  A number of milliseconds n is     *)
(* Number(n); absent, null and 0 are all falsy and read as Number(0).  The *)
(* other values are those int(ts_val) / 1000 cannot be made a time of:     *)
(* range tells a number within the years 1..9999 ("ok") from one beyond    *)
(* them ("year", as 1e15) and one beyond the platform's time_t ("time_t",  *)
(* as 1e300).                                                              *)
Number(n) == [ json |-> "number", ms |-> n, range |-> "ok" ]
NotNumeric == [ json |-> "string", ms |-> 0, range |-> "ok" ]       \* "abc"
WrongType == [ json |-> "array", ms |-> 0, range |-> "ok" ]         \* [1]
BeyondYears == [ json |-> "number", ms |-> 0, range |-> "year" ]    \* 1e15
BeyondTimeT == [ json |-> "number", ms |-> 0, range |-> "time_t" ]  \* 1e300

(* A JSON item: isDict tells a JSON object from any other value; a key     *)
(* that is absent, null or "" reads as "" (all are falsy under `or`); ts   *)
(* is the number of the timestamp_ms field.                                *)
Item(tok, uid, stage, sess, dev, ts) ==
    [ isDict |-> TRUE,
      token_id |-> tok, tokenId |-> "",
      uid |-> uid, serial |-> "",
      stage |-> stage,
      session_id |-> sess, sessionId |-> "",
      device_id |-> dev, deviceId |-> "",
      timestamp_ms |-> Number(ts), timestampMs |-> Number(0) ]

NotADict == [ Item("", "", "", "", "", 0) EXCEPT !.isDict = FALSE ]

RawItems ==
    { Item("001", "", "QUEUE_JOIN", SessionId, "d1", 0),
      Item("001", "", "QUEUE_JOIN", SessionId, "", Earlier),
      Item("001", "", " exit ", SessionId, "d1", 0),
      Item("002", "", "queue_join", SessionId, "d1", 0),
      Item("002", "", "QUEUE_JOIN", SessionId, "d1", SameSecond),
      Item("002", "", "EXIT", SessionId, "d1", 0),
      Item("001", "", "EXIT", "", "d1", 0),
      Item("002", "", "QUEUE_JOIN", "", "d1", 0),
      NotADict }

(* texts of 50, 100 and 101 characters that upper() leaves as they are *)
Fifty == "01234567890123456789012345678901234567890123456789"
Hundred == Fifty \o Fifty
HundredOne == Hundred \o "0"

(* x or y, on strings *)
Or(x, y) == IF x # "" THEN x ELSE y

(* str(s).strip().upper(), on the stage texts of RawItems *)
StripUpper(s) ==
    CASE s = " exit " -> "EXIT"
      [] s = "exit" -> "EXIT"
      [] s = "queue_join" -> "QUEUE_JOIN"
      [] s = " queue_join " -> "QUEUE_JOIN"
      [] s = "   " -> ""
      [] s = " " \o Fifty \o " " -> Fifty
      [] OTHER -> s

(* Normalize reading the snake_case names only *)
Normalize_SnakeOnly(item) ==
    LET token_id == Or(item.token_id, "UNKNOWN")
    IN  [ token_id |-> token_id,
          uid |-> Or(item.uid, Or(item.serial, Or(token_id, "UNKNOWN"))),
          stage |-> Or(StripUpper(item.stage), "UNKNOWN"),
          session_id |-> Or(item.session_id, "UNKNOWN"),
          device_id |-> Or(item.device_id, "mobile") ]

(* the normalized fields of a dict item *)
Normalize(item) ==
    LET token_id == Or(item.token_id, Or(item.tokenId, "UNKNOWN"))
    IN  [ token_id |-> token_id,
          uid |-> Or(item.uid, Or(item.serial, Or(token_id, "UNKNOWN"))),
          stage |-> Or(StripUpper(item.stage), "UNKNOWN"),
          session_id |-> Or(item.session_id, Or(item.sessionId, "UNKNOWN")),
          device_id |-> Or(item.device_id, Or(item.deviceId, "mobile")) ]

(* TooLong testing the token_id only *)
TooLong_TokenOnly(n) == Len(n.token_id) > MaxIdLen

(* len(token_id) > 100 or len(uid) > 100 or len(stage) > 50 *)
TooLong(n) ==
    Len(n.token_id) > MaxIdLen \/ Len(n.uid) > MaxIdLen \/ Len(n.stage) > MaxStageLen

(* bool(v) of the JSON value of a timestamp field *)
Truthy(v) == v # Number(0)

(* the exception datetime.fromtimestamp(int(v) / 1000, tz=timezone.utc)    *)
(* raises, "none" when it returns                                          *)
Conversion(v) ==
    CASE v.json = "string" -> "ValueError"
      [] v.json = "array" -> "TypeError"
      [] v.json = "number" /\ v.range = "year" -> "ValueError"
      [] v.json = "number" /\ v.range = "time_t" -> "OverflowError"
      [] OTHER -> "none"

(* except (ValueError, TypeError, OSError): pass *)
Caught == { "ValueError", "TypeError", "OSError" }

(* ts_val = timestamp_ms or timestampMs; if ts_val: try the conversion:    *)
(* the timestamp handed to log_event (NULL for None), and whether an       *)
(* exception leaves the try statement                                      *)
ParseTimestamp(item) ==
    LET ts_val == IF Truthy(item.timestamp_ms)
                  THEN item.timestamp_ms ELSE item.timestampMs
    IN  [ timestamp |-> IF Truthy(ts_val) /\ Conversion(ts_val) = "none"
                        THEN ts_val.ms ELSE NULL,
          raised |-> Truthy(ts_val)
                     /\ Conversion(ts_val) \notin Caught \cup { "none" } ]

---------------------------------------------------------------------------
(* The event store (tap_station.database.Database) *)

(* the idempotency key of a row *)
EventKey(e) == <<e.uid, e.stage, e.session_id, e.device_id>>

(* Database.log_event: an atomic check-and-insert; TRUE iff a row was      *)
(* inserted; a missing timestamp defaults to the time of the call          *)
LogEvent(log, n, timestamp, t) ==
    LET row == [ id |-> Len(log) + 1,
                 token_id |-> n.token_id, uid |-> n.uid, stage |-> n.stage,
                 device_id |-> n.device_id, session_id |-> n.session_id,
                 timestamp |-> IF timestamp = NULL THEN t ELSE timestamp ]
    IN  IF \E i \in 1..Len(log) : EventKey(log[i]) = EventKey(row)
        THEN [ log |-> log, success |-> FALSE ]
        ELSE [ log |-> Append(log, row), success |-> TRUE ]

(* Database.get_event_count() *)
GetEventCount(log) == Len(log)

(* Database.get_event_count(session_id) *)
GetSessionEventCount(log, session_id) ==
    Cardinality({ i \in 1..Len(log) : log[i].session_id = session_id })

(* Database.get_recent_events(limit): the rows logged last, as a set (the  *)
(* order of the list is the store's)                                       *)
GetRecentEvents(log, limit) ==
    { log[i] : i \in { i \in 1..Len(log) : i > Len(log) - limit } }

---------------------------------------------------------------------------
(* IngestOne with the two outcomes of log_event exchanged *)
IngestOne_Swapped(log, item, t) ==
    IF ~item.isDict
    THEN [ log |-> log, outcome |-> "error" ]
    ELSE LET n == Normalize(item)
         IN  IF TooLong(n)
             THEN [ log |-> log, outcome |-> "error" ]
             ELSE IF ParseTimestamp(item).raised
             THEN [ log |-> log, outcome |-> "error" ]
             ELSE LET r == LogEvent(log, n, ParseTimestamp(item).timestamp, t)
                  IN  [ log |-> r.log,
                        outcome |-> IF r.success THEN "duplicate" ELSE "inserted" ]

(* IngestOne with the result of log_event ignored *)
IngestOne_AlwaysInserted(log, item, t) ==
    IF ~item.isDict
    THEN [ log |-> log, outcome |-> "error" ]
    ELSE LET n == Normalize(item)
         IN  IF TooLong(n)
             THEN [ log |-> log, outcome |-> "error" ]
             ELSE IF ParseTimestamp(item).raised
             THEN [ log |-> log, outcome |-> "error" ]
             ELSE LET r == LogEvent(log, n, ParseTimestamp(item).timestamp, t)
                  IN  [ log |-> r.log, outcome |-> "inserted" ]

(* IngestOne with an exception of the loop body swallowed uncounted *)
IngestOne_UncountedFailure(log, item, t) ==
    IF ~item.isDict
    THEN [ log |-> log, outcome |-> "error" ]
    ELSE LET n == Normalize(item)
         IN  IF TooLong(n)
             THEN [ log |-> log, outcome |-> "error" ]
             ELSE IF ParseTimestamp(item).raised
             THEN [ log |-> log, outcome |-> "skipped" ]
             ELSE LET r == LogEvent(log, n, ParseTimestamp(item).timestamp, t)
                  IN  [ log |-> r.log,
                        outcome |-> IF r.success THEN "inserted" ELSE "duplicate" ]

(* IngestOne with a duplicate overwriting the timestamp of the stored row *)
IngestOne_Upsert(log, item, t) ==
    IF ~item.isDict
    THEN [ log |-> log, outcome |-> "error" ]
    ELSE LET n == Normalize(item)
         IN  IF TooLong(n)
             THEN [ log |-> log, outcome |-> "error" ]
             ELSE IF ParseTimestamp(item).raised
             THEN [ log |-> log, outcome |-> "error" ]
             ELSE LET r == LogEvent(log, n, ParseTimestamp(item).timestamp, t)
                      ts == IF ParseTimestamp(item).timestamp = NULL
                            THEN t ELSE ParseTimestamp(item).timestamp
                  IN  IF r.success
                      THEN [ log |-> r.log, outcome |-> "inserted" ]
                      ELSE [ log |-> [ i \in 1..Len(log) |->
                                         IF log[i].uid = n.uid
                                            /\ log[i].stage = n.stage
                                            /\ log[i].session_id = n.session_id
                                            /\ log[i].device_id = n.device_id
                                         THEN [ log[i] EXCEPT !.timestamp = ts ]
                                         ELSE log[i] ],
                             outcome |-> "duplicate" ]

(* One iteration of the loop of ingest_events: the outcome of an item and  *)
(* the log after it                                                        *)
IngestOne(log, item, t) ==
    IF ~item.isDict
    THEN [ log |-> log, outcome |-> "error" ]
    ELSE LET n == Normalize(item)
         IN  IF TooLong(n)
             THEN [ log |-> log, outcome |-> "error" ]
             ELSE IF ParseTimestamp(item).raised
             THEN [ log |-> log, outcome |-> "error" ]   \* except Exception
             ELSE LET r == LogEvent(log, n, ParseTimestamp(item).timestamp, t)
                  IN  [ log |-> r.log,
                        outcome |-> IF r.success THEN "inserted" ELSE "duplicate" ]

(* the loop of ingest_events run to its end without any other call in      *)
(* between: the log after it and the outcome of each item, in the order of *)
(* the items (the first half of the items, then the second on the log the  *)
(* first has left)                                                         *)
RECURSIVE IngestAll(_, _, _)
IngestAll(log, items, t) ==
    IF items = <<>>
    THEN [ log |-> log, outcomes |-> <<>> ]
    ELSE IF Len(items) = 1
    THEN LET one == IngestOne(log, items[1], t)
         IN  [ log |-> one.log, outcomes |-> << one.outcome >> ]
    ELSE LET half == Len(items) \div 2
             first == IngestAll(log, SubSeq(items, 1, half), t)
         IN  CASE Len(first.outcomes) = half ->     \* the first half is done
                LET second == IngestAll(first.log,
                                        SubSeq(items, half + 1, Len(items)), t)
                IN  [ log |-> second.log,
                      outcomes |-> first.outcomes \o second.outcomes ]

Count(outcomes, o) == Cardinality({ i \in 1..Len(outcomes) : outcomes[i] = o })

(* Summary failing the whole call when an item has failed *)
Summary_FailedOnError(items, outcomes) ==
    IF Count(outcomes, "error") > 0
    THEN [ kind |-> "ingest", code |-> 500, status |-> "error" ]
    ELSE [ kind |-> "ingest", code |-> 200, status |-> "ok",
           received |-> Len(items),
           inserted |-> Count(outcomes, "inserted"),
           duplicates |-> Count(outcomes, "duplicate"),
           errors |-> 0 ]

(* the 200 response of ingest_events *)
Summary(items, outcomes) ==
    [ kind |-> "ingest", code |-> 200, status |-> "ok",
      received |-> Len(items),
      inserted |-> Count(outcomes, "inserted"),
      duplicates |-> Count(outcomes, "duplicate"),
      errors |-> Count(outcomes, "error") ]

Rejected(code) == [ kind |-> "ingest", code |-> code, status |-> "rejected" ]

(* BodyCheck without the test for an empty list *)
BodyCheck_NoEmptyCheck(body) ==
    IF ~body.isList THEN 400
    ELSE IF Len(body.items) > MaxBatchItems THEN 413
    ELSE 0

(* the checks of the request body before the loop: 0 when it is accepted *)
BodyCheck(body) ==
    IF ~body.isList THEN 400
    ELSE IF Len(body.items) > MaxBatchItems THEN 413
    ELSE IF Len(body.items) = 0 THEN 400
    ELSE 0

RECURSIVE SeqsUpTo(_, _)
SeqsUpTo(S, n) ==
    IF n = 0 THEN { <<>> }
    ELSE LET shorter == SeqsUpTo(S, n - 1)
         IN  shorter \cup { Append(s, x) : s \in shorter, x \in S }

Bodies(S, n) ==
    { [ isList |-> FALSE, items |-> <<>> ] }
    \cup { [ isList |-> TRUE, items |-> s ] : s \in SeqsUpTo(S, n) }

NoResponse == [ kind |-> "none" ]

---------------------------------------------------------------------------
(* SQL over the events table *)

Rows(log) == SeqToSet(log)

(* datetime(x) of a stored timestamp: 'YYYY-MM-DD HH:MM:SS', whole seconds *)
SqlDatetime(ts) == ts \div MsPerSecond

(* date(x) of a stored timestamp *)
SqlDate(ts) == ts \div MsPerDay

(* x.timestamp > datetime('now', '-1 hour'): a comparison of texts, the     *)
(* stored one 'YYYY-MM-DDTHH:MM:SS...' and the computed one                *)
(* 'YYYY-MM-DD HH:MM:SS'; on equal dates 'T' sorts after ' '               *)
AfterHourAgo(ts, t) == SqlDate(ts) >= SqlDate(t - MsPerHour)

(* the orders in which a query may return the rows S under ORDER BY key,   *)
(* key[r] being the value row r is sorted by: rows of equal key come in    *)
(* any order                                                               *)
Orderings(S, key) ==
    { o \in [1..Cardinality(S) -> S] :
        \A i, j \in 1..Cardinality(S) :
            i < j => (o[i] # o[j] /\ key[o[i]] <= key[o[j]]) }

(* LIMIT n *)
Limit(o, n) == IF Len(o) <= n THEN o ELSE SubSeq(o, 1, n)

(* the join condition without its session part *)
SameTokenOnly(q, e) == q.token_id = e.token_id

(* the join condition of every query that joins q to e *)
SameTokenSession(q, e) == q.token_id = e.token_id /\ q.session_id = e.session_id

(* LeftJoinExit joining q only to an EXIT logged after it *)
LeftJoinExit_LaterExit(log) ==
    { [ q |-> p[1], e_id |-> p[2].id ] :
        p \in { p \in Rows(log) \X Rows(log) :
                  /\ SameTokenSession(p[1], p[2])
                  /\ p[2].stage = "EXIT"
                  /\ p[2].id > p[1].id } }
    \cup { [ q |-> q, e_id |-> NULL ] :
             q \in { q \in Rows(log) :
                       ~\E e \in Rows(log) :
                           /\ SameTokenSession(q, e)
                           /\ e.stage = "EXIT"
                           /\ e.id > q.id } }

(* FROM events q LEFT JOIN events e ON ... AND e.stage = 'EXIT' *)
LeftJoinExit(log) ==
    { [ q |-> q, e_id |-> e.id ] :
        <<q, e>> \in { p \in Rows(log) \X Rows(log) :
                         SameTokenSession(p[1], p[2]) /\ p[2].stage = "EXIT" } }
    \cup { [ q |-> q, e_id |-> NULL ] :
             q \in { q \in Rows(log) :
                       ~\E e \in Rows(log) :
                           SameTokenSession(q, e) /\ e.stage = "EXIT" } }

(* OpenJoins without the test e.id IS NULL *)
OpenJoins_NoNullTest(log) ==
    { r.q : r \in { r \in LeftJoinExit(log) :
                      /\ r.q.stage = "QUEUE_JOIN"
                      /\ r.q.session_id = SessionId } }

(* OpenJoins without the test of the session of q *)
OpenJoins_AnySession(log) ==
    { r.q : r \in { r \in LeftJoinExit(log) :
                      /\ r.q.stage = "QUEUE_JOIN"
                      /\ r.e_id = NULL } }

(* ... WHERE q.stage = 'QUEUE_JOIN' AND q.session_id = ? AND e.id IS NULL *)
OpenJoins(log) ==
    { r.q : r \in { r \in LeftJoinExit(log) :
                      /\ r.q.stage = "QUEUE_JOIN"
                      /\ r.q.session_id = SessionId
                      /\ r.e_id = NULL } }

(* SELECT COUNT(DISTINCT q.token_id) over the same rows *)
InQueueCount(log) == Cardinality({ q.token_id : q \in OpenJoins(log) })

(* FROM events q JOIN events e ON ... WHERE q.stage = 'QUEUE_JOIN'          *)
(* AND e.stage = 'EXIT' AND q.session_id = ?                               *)
JourneyRows(log) ==
    { [ q |-> p[1], e |-> p[2] ] :
        p \in { p \in Rows(log) \X Rows(log) :
                  /\ SameTokenSession(p[1], p[2])
                  /\ p[1].stage = "QUEUE_JOIN"
                  /\ p[2].stage = "EXIT"
                  /\ p[1].session_id = SessionId } }

(* ORDER BY datetime(q.timestamp) ASC *)
ByQueueTime(S) == Orderings(S, [ q \in S |-> SqlDatetime(q.timestamp) ])

(* ORDER BY e.timestamp DESC *)
ByExitTimeDesc(S) == Orderings(S, [ j \in S |-> -j.e.timestamp ])

(* ORDER BY timestamp *)
ByTimestamp(S) == Orderings(S, [ e \in S |-> e.timestamp ])

(* strftime("%H:%M") and strftime("%I:%M %p"): the minute of the day *)
ClockMinute(ts) == (ts % MsPerDay) \div MsPerMinute

(* MinutesBetween rounding to the nearest minute *)
MinutesBetween_Rounded(a, b) == Trunc(2 * (a - b) + MsPerMinute, 2 * MsPerMinute)

(* int((a - b).total_seconds() / 60) *)
MinutesBetween(a, b) == Trunc(a - b, MsPerMinute)

---------------------------------------------------------------------------
(* _get_queue_details, for one order o of the rows returned; q_id is the   *)
(* id of the row an entry was built from (not part of the payload)         *)
QueueDetails(o, t) ==
    [ idx \in 1..Len(o) |->
        [ position |-> idx,
          token_id |-> o[idx].token_id,
          queue_time |-> ClockMinute(o[idx].timestamp),
          time_in_service_minutes |-> MinutesBetween(t, o[idx].timestamp),
          q_id |-> o[idx].id ] ]

(* AvgWait answering the default estimate when there is no journey *)
AvgWait_DefaultWhenEmpty(journeys) ==
    IF Len(journeys) = 0
    THEN DefaultEstimate
    ELSE Trunc(SumSeq([ i \in 1..Len(journeys) |->
                          journeys[i].e.timestamp - journeys[i].q.timestamp ]),
               MsPerMinute * Len(journeys))

(* the average of _calculate_avg_wait_time over the fetched journeys *)
AvgWait(journeys) ==
    IF Len(journeys) = 0
    THEN 0
    ELSE Trunc(SumSeq([ i \in 1..Len(journeys) |->
                          journeys[i].e.timestamp - journeys[i].q.timestamp ]),
               MsPerMinute * Len(journeys))

(* the values _calculate_avg_wait_time(limit) may return *)
CalculateAvgWaitTime(log, limit) ==
    { AvgWait(Limit(o, limit)) : o \in ByExitTimeDesc(JourneyRows(log)) }

(* _estimate_wait_time *)
EstimateWaitTime(log) ==
    { IF Len(o) = 0 THEN DefaultEstimate ELSE AvgWait(Limit(o, AvgWaitLimit)) :
        o \in ByExitTimeDesc(JourneyRows(log)) }

(* _get_recent_completions, for one order o of the journeys returned *)
RecentCompletions(o, limit) ==
    LET rows == Limit(o, limit)
    IN  [ i \in 1..Len(rows) |->
            [ token_id |-> rows[i].q.token_id,
              exit_time |-> ClockMinute(rows[i].e.timestamp),
              wait_minutes |-> MinutesBetween(rows[i].e.timestamp, rows[i].q.timestamp),
              q_id |-> rows[i].q.id,
              e_id |-> rows[i].e.id ] ]


Min(a, b) == IF a <= b THEN a ELSE b

Alert(level, about, value) == [ level |-> level, about |-> about, value |-> value ]

(* Alerts with a critical finding replacing the warning about the same      *)
(* quantity                                                                *)
Alerts_CriticalOnly(in_queue, longest_wait, capacity_utilization) ==
    (IF in_queue > QueueCritical
        THEN << Alert("critical", "queue", in_queue) >>
        ELSE IF in_queue > QueueWarn
        THEN << Alert("warning", "queue", in_queue) >> ELSE <<>>)
    \o (IF longest_wait > WaitCritical
        THEN << Alert("critical", "wait", longest_wait) >>
        ELSE IF longest_wait > WaitWarn
        THEN << Alert("warning", "wait", longest_wait) >> ELSE <<>>)
    \o (IF capacity_utilization > CapacityInfo
        THEN << Alert("info", "capacity", capacity_utilization) >> ELSE <<>>)

(* the alerts of _get_operational_metrics, in the order they are appended *)
Alerts(in_queue, longest_wait, capacity_utilization) ==
    (IF in_queue > QueueWarn
        THEN << Alert("warning", "queue", in_queue) >> ELSE <<>>)
    \o (IF in_queue > QueueCritical
        THEN << Alert("critical", "queue", in_queue) >> ELSE <<>>)
    \o (IF longest_wait > WaitWarn
        THEN << Alert("warning", "wait", longest_wait) >> ELSE <<>>)
    \o (IF longest_wait > WaitCritical
        THEN << Alert("critical", "wait", longest_wait) >> ELSE <<>>)
    \o (IF capacity_utilization > CapacityInfo
        THEN << Alert("info", "capacity", capacity_utilization) >> ELSE <<>>)

(* QueueHealth with the thresholds themselves included in each level *)
QueueHealth_Inclusive(in_queue, longest_wait) ==
    IF in_queue >= QueueCritical \/ longest_wait >= WaitCritical THEN "critical"
    ELSE IF in_queue >= QueueWarn \/ longest_wait >= WaitWarn THEN "warning"
    ELSE IF in_queue >= QueueModerate \/ longest_wait >= WaitModerate THEN "moderate"
    ELSE "good"

(* the queue health assessment of _get_operational_metrics *)
QueueHealth(in_queue, longest_wait) ==
    IF in_queue > QueueCritical \/ longest_wait > WaitCritical THEN "critical"
    ELSE IF in_queue > QueueWarn \/ longest_wait > WaitWarn THEN "warning"
    ELSE IF in_queue > QueueModerate \/ longest_wait > WaitModerate THEN "moderate"
    ELSE "good"

(* estimated_wait_new *)
EstimatedWaitNew(avg_wait, in_queue) ==
    IF avg_wait > 0 THEN avg_wait + (in_queue * MinutesPerHead) ELSE DefaultEstimate

(* min(100, int((completed_last_hour / 12) * 100)) *)
CapacityUtilization(completed_last_hour) ==
    Min(100, Trunc(completed_last_hour * 100, MaxPerHour))

(* what _get_operational_metrics derives from the three counts it has      *)
(* queried: the utilization, the alerts and the health                     *)
DerivedMetrics(in_queue, longest_wait, completed_last_hour) ==
    LET capacity_utilization == CapacityUtilization(completed_last_hour)
    IN  [ kind |-> "metrics",
          in_queue |-> in_queue,
          longest_wait |-> longest_wait,
          completed_last_hour |-> completed_last_hour,
          capacity_utilization |-> capacity_utilization,
          alerts |-> Alerts(in_queue, longest_wait, capacity_utilization),
          queue_health |-> QueueHealth(in_queue, longest_wait) ]

(* the events of the session dated today *)
TodayEvents(log, t) ==
    { e \in Rows(log) : e.session_id = SessionId /\ SqlDate(e.timestamp) = SqlDate(t) }

(* the least element of a non-empty set of numbers *)
Least(S) == CHOOSE x \in S : \A y \in S : x <= y

(* _get_operational_metrics at time t, for one order o of the open joins   *)
(* (the query keeps its first row) and one value avg_wait of               *)
(* _calculate_avg_wait_time(limit=10)                                      *)
OperationalMetrics(log, t, o, avg_wait) ==
    LET longest_wait ==
            IF Len(o) = 0 THEN 0 ELSE MinutesBetween(t, o[1].timestamp)
        in_queue == InQueueCount(log)
        today == { e.timestamp : e \in TodayEvents(log, t) }
        service_uptime ==
            IF today = {} THEN 0 ELSE MinutesBetween(t, Least(today))
        completed_last_hour ==
            Cardinality({ j \in JourneyRows(log) : AfterHourAgo(j.e.timestamp, t) })
        capacity_utilization == CapacityUtilization(completed_last_hour)
    IN  [ longest_wait_current |-> longest_wait,
          estimated_wait_new |-> EstimatedWaitNew(avg_wait, in_queue),
          service_uptime_minutes |-> service_uptime,
          capacity_utilization |-> capacity_utilization,
          alerts |-> Alerts(in_queue, longest_wait, capacity_utilization),
          queue_health |-> QueueHealth(in_queue, longest_wait) ]

(* last_hour_events / 2: a float, kept as its whole part and its half *)
Halved(n) == [ whole |-> n \div 2, half |-> n % 2 ]

(* _get_dashboard_stats at time t, given what the calls it makes returned  *)
DashboardStats(log, t, avg_wait, om, recent_completions, queue_details) ==
    LET today_events == Cardinality(TodayEvents(log, t))
        last_hour_events ==
            Cardinality({ e \in Rows(log) :
                            e.session_id = SessionId /\ AfterHourAgo(e.timestamp, t) })
        completed_today ==
            Cardinality({ j \in JourneyRows(log) :
                            SqlDate(j.e.timestamp) = SqlDate(t) })
    IN  [ kind |-> "dashboard", code |-> 200,
          session_id |-> SessionId,
          stats |->
            [ today_events |-> today_events,
              last_hour_events |-> last_hour_events,
              in_queue |-> InQueueCount(log),
              completed_today |-> completed_today,
              avg_wait_minutes |-> avg_wait,
              throughput_per_hour |->
                  IF last_hour_events > 0 THEN Halved(last_hour_events) ELSE Halved(0),
              longest_wait_current |-> om.longest_wait_current,
              estimated_wait_new |-> om.estimated_wait_new,
              service_uptime_minutes |-> om.service_uptime_minutes,
              capacity_utilization |-> om.capacity_utilization ],
          operational |->
            [ alerts |-> om.alerts, queue_health |-> om.queue_health ],
          queue_details |-> queue_details,
          recent_completions |-> recent_completions ]

(* the loop of _get_token_status over the events of the token *)
RECURSIVE StatusLoop(_, _)
StatusLoop(result, evs) ==
    IF evs = <<>>
    THEN result
    ELSE LET e == Head(evs)
             r == IF e.stage = "QUEUE_JOIN"
                  THEN [ result EXCEPT !.queue_join = e.timestamp,
                                       !.queue_join_time = ClockMinute(e.timestamp),
                                       !.status = "in_queue" ]
                  ELSE IF e.stage = "EXIT"
                  THEN [ result EXCEPT !.exit = e.timestamp,
                                       !.exit_time = ClockMinute(e.timestamp),
                                       !.status = "complete" ]
                  ELSE result
         IN  StatusLoop(r, Tail(evs))

(* _get_token_status, for one order o of the events of the token and one   *)
(* value of _estimate_wait_time                                            *)
TokenStatus(token_id, o, estimated_wait) ==
    LET first == [ kind |-> "status", code |-> 200,
                   token_id |-> token_id, session_id |-> SessionId,
                   queue_join |-> NULL, queue_join_time |-> NULL,
                   exit |-> NULL, exit_time |-> NULL,
                   wait_time_minutes |-> NULL, has_wait_time |-> FALSE,
                   status |-> "not_checked_in",
                   estimated_wait |-> estimated_wait ]
        result == StatusLoop(first, o)
    IN  IF result.queue_join # NULL /\ result.exit # NULL
        THEN [ result EXCEPT
                 !.wait_time_minutes = MinutesBetween(result.exit, result.queue_join),
                 !.has_wait_time = TRUE ]
        ELSE result

TokenEvents(log, token_id) ==
    { e \in Rows(log) : e.token_id = token_id /\ e.session_id = SessionId }

---------------------------------------------------------------------------
(* The system with every request served at one instant *)

Init ==
    /\ events = <<>>
    /\ now = T0
    /\ calls = [ c \in {} |-> 0 ]
    /\ resp = NoResponse

(* POST /api/ingest *)
Ingest(body, t) ==
    /\ t >= now
    /\ now' = t
    /\ IF BodyCheck(body) # 0
       THEN /\ resp' = Rejected(BodyCheck(body))
            /\ UNCHANGED events
       ELSE LET r == IngestAll(events, body.items, t)
            IN  /\ Len(r.log) <= MaxEvents
                /\ events' = r.log
                /\ resp' = Summary(body.items, r.outcomes)
    /\ UNCHANGED calls

(* GET /api/dashboard *)
ApiDashboard(t) ==
    /\ t >= now
    /\ now' = t
    /\ \E avg20 \in CalculateAvgWaitTime(events, DashboardAvgLimit),
          avg10 \in CalculateAvgWaitTime(events, AvgWaitLimit),
          first \in ByQueueTime(OpenJoins(events)),
          rc \in ByExitTimeDesc(JourneyRows(events)),
          qd \in ByQueueTime(OpenJoins(events)) :
            resp' = DashboardStats(events, t, avg20,
                                   OperationalMetrics(events, t, first, avg10),
                                   RecentCompletions(rc, CompletionsLimit),
                                   QueueDetails(qd, t))
    /\ UNCHANGED <<events, calls>>

StatusTokens == {"001", "002", "999"}

(* GET /api/status/<token_id> *)
ApiStatus(token_id, t) ==
    /\ t >= now
    /\ now' = t
    /\ \E o \in ByTimestamp(TokenEvents(events, token_id)),
          est \in EstimateWaitTime(events) :
            resp' = TokenStatus(token_id, o, est)
    /\ UNCHANGED <<events, calls>>

Limits == {1, AvgWaitLimit, DashboardAvgLimit}

(* a call of _calculate_avg_wait_time(limit) *)
AvgWaitTime(limit) ==
    /\ \E avg \in CalculateAvgWaitTime(events, limit) :
            resp' = [ kind |-> "avg_wait", limit |-> limit, avg_wait |-> avg ]
    /\ UNCHANGED <<events, now, calls>>

(* GET /health *)
HealthCheck ==
    /\ resp' = [ kind |-> "health", code |-> 200, status |-> "ok",
                 total_events |-> GetEventCount(events) ]
    /\ UNCHANGED <<events, now, calls>>

RecentLimit == 10            \* get_recent_events(10)

(* GET /api/stats *)
ApiStats ==
    /\ resp' = [ kind |-> "stats", code |-> 200, session_id |-> SessionId,
                 total_events |-> GetSessionEventCount(events, SessionId),
                 recent_events |-> GetRecentEvents(events, RecentLimit) ]
    /\ UNCHANGED <<events, now, calls>>

---------------------------------------------------------------------------
(* Ingestion calls served by concurrent threads: each call runs the loop   *)
(* of ingest_events one item at a time; log_event is one atomic step       *)

Callers == {"c1", "c2"}

ConcurrentItems ==
    { Item("001", "", "QUEUE_JOIN", SessionId, "d1", 0),
      Item("001", "", "queue_join", SessionId, "d1", T0),
      Item("002", "", "EXIT", SessionId, "d1", 0),
      NotADict }

(* the instants at which the concurrent calls run *)
IngestTimes == { T0, T0 + 37 * MsPerMinute }

Idle == [ pc |-> "idle", items |-> <<>>, outcomes |-> <<>>, response |-> NoResponse ]

InitIngest ==
    /\ events = <<>>
    /\ now = T0
    /\ calls = [ c \in Callers |-> Idle ]
    /\ resp = NoResponse

BeginIngest(c, body) ==
    /\ calls[c].pc = "idle"
    /\ IF BodyCheck(body) # 0
       THEN /\ calls' = [ calls EXCEPT ![c] =
                            [ Idle EXCEPT !.pc = "done",
                                          !.response = Rejected(BodyCheck(body)) ] ]
            /\ resp' = Rejected(BodyCheck(body))
       ELSE /\ calls' = [ calls EXCEPT ![c] =
                            [ Idle EXCEPT !.pc = "loop", !.items = body.items ] ]
            /\ UNCHANGED resp
    /\ UNCHANGED <<events, now>>

IngestStep(c, t) ==
    /\ calls[c].pc = "loop"
    /\ Len(calls[c].outcomes) < Len(calls[c].items)
    /\ t >= now
    /\ now' = t
    /\ LET item == calls[c].items[Len(calls[c].outcomes) + 1]
           one == IngestOne(events, item, t)
       IN  /\ events' = one.log
           /\ calls' = [ calls EXCEPT ![c].outcomes = Append(@, one.outcome) ]
    /\ UNCHANGED resp

EndIngest(c) ==
    /\ calls[c].pc = "loop"
    /\ Len(calls[c].outcomes) = Len(calls[c].items)
    /\ calls' = [ calls EXCEPT ![c].pc = "done",
                               ![c].response = Summary(calls[c].items, calls[c].outcomes) ]
    /\ resp' = Summary(calls[c].items, calls[c].outcomes)
    /\ UNCHANGED <<events, now>>

NextIngest ==
    \/ \E c \in Callers, body \in Bodies(ConcurrentItems, MaxBatch) : BeginIngest(c, body)
    \/ \E c \in Callers, t \in IngestTimes : IngestStep(c, t)
    \/ \E c \in Callers : EndIngest(c)

SpecIngest == InitIngest /\ [][NextIngest]_vars

---------------------------------------------------------------------------
(* Ingestion requests served one after the other, each kept with its       *)
(* outcome in calls: items at and over the length limits, timestamps that  *)
(* cannot be converted, batches with a failing item, and batches at and    *)
(* over the size limit                                                     *)

Join001 == Item("001", "", "QUEUE_JOIN", SessionId, "d1", 0)
Exit002 == Item("002", "", "EXIT", SessionId, "d1", 0)

BatchItems ==
    { Join001,
      Exit002,
      NotADict,
      Item(Hundred, "", "QUEUE_JOIN", SessionId, "d1", 0),
      Item(HundredOne, "", "QUEUE_JOIN", SessionId, "d1", 0),
      Item("003", HundredOne, "QUEUE_JOIN", SessionId, "d1", 0),
      Item("001", "", Fifty \o "0", SessionId, "d1", 0),
      Item("001", "", " " \o Fifty \o " ", SessionId, "d1", 0),
      [ Join001 EXCEPT !.timestamp_ms = NotNumeric ],
      [ Join001 EXCEPT !.timestampMs = WrongType ],
      [ Exit002 EXCEPT !.timestamp_ms = BeyondYears ],
      [ Exit002 EXCEPT !.timestamp_ms = BeyondTimeT ] }

(* five items, the third not a record *)
FiveItems ==
    << Join001, Exit002, NotADict, Join001,
       Item(Hundred, "", "QUEUE_JOIN", SessionId, "d1", 0) >>

Batches ==
    { FiveItems,
      << Item(HundredOne, "", "QUEUE_JOIN", SessionId, "d1", 0), Exit002 >>,
      << [ Exit002 EXCEPT !.timestamp_ms = BeyondTimeT ], Join001, Join001 >>,
      [ i \in 1..(MaxBatchItems + 1) |-> Join001 ] }

(* a batch of as many items as a request may carry *)
FullBatch == [ isList |-> TRUE, items |-> [ i \in 1..MaxBatchItems |-> Join001 ] ]

BatchBodies ==
    Bodies(BatchItems, 1) \cup { [ isList |-> TRUE, items |-> s ] : s \in Batches }

Server == "c1"    \* the one thread serving the requests

InitBatch ==
    /\ events = <<>>
    /\ now = T0
    /\ calls = [ c \in { Server } |->
                   [ pc |-> "idle", body |-> [ isList |-> TRUE, items |-> <<>> ],
                     items |-> <<>>, outcomes |-> <<>>, response |-> NoResponse ] ]
    /\ resp = NoResponse

(* POST /api/ingest, served whole *)
ServeIngest(body, t) ==
    /\ t >= now
    /\ now' = t
    /\ IF BodyCheck(body) # 0
       THEN /\ resp' = Rejected(BodyCheck(body))
            /\ UNCHANGED events
            /\ calls' = [ calls EXCEPT ![Server] =
                            [ pc |-> "done", body |-> body, items |-> <<>>,
                              outcomes |-> <<>>,
                              response |-> Rejected(BodyCheck(body)) ] ]
       ELSE LET r == IngestAll(events, body.items, t)
            IN  /\ Len(r.log) <= MaxEvents
                /\ events' = r.log
                /\ resp' = Summary(body.items, r.outcomes)
                /\ calls' = [ calls EXCEPT ![Server] =
                                [ pc |-> "done", body |-> body,
                                  items |-> body.items, outcomes |-> r.outcomes,
                                  response |-> Summary(body.items, r.outcomes) ] ]

(* the full batch is sent while the log holds at most one row *)
NextBatch ==
    \/ \E body \in BatchBodies, t \in IngestTimes : ServeIngest(body, t)
    \/ \E t \in IngestTimes : Len(events) <= 1 /\ ServeIngest(FullBatch, t)

SpecBatch == InitBatch /\ [][NextBatch]_vars

---------------------------------------------------------------------------
(* Ingestion of items under either naming convention and with fields left  *)
(* out, one item a request                                                 *)

NamingItems ==
    { Item("001", "", "QUEUE_JOIN", SessionId, "d1", Earlier),
      [ isDict |-> TRUE,
        token_id |-> "", tokenId |-> "002",
        uid |-> "U2", serial |-> "",
        stage |-> " queue_join ",
        session_id |-> "", sessionId |-> SessionId,
        device_id |-> "", deviceId |-> "d2",
        timestamp_ms |-> Number(0), timestampMs |-> Number(Earlier) ],
      [ Item("003", "", "exit", SessionId, "d1", 0) EXCEPT !.serial = "SER3" ],
      Item("004", "", "   ", "", "", 0) }

NextNaming ==
    \E body \in Bodies(NamingItems, 1), t \in IngestTimes : ServeIngest(body, t)

SpecNaming == InitBatch /\ [][NextNaming]_vars

---------------------------------------------------------------------------
(* Reads served while the store may fail: in a call, one of the queries    *)
(* the handler makes raises an exception (failing names it, "none" when    *)
(* the store answers them all).  A response is kept with the name of the   *)
(* query that failed (store_failed, not part of the payload).              *)

(* the queries of _get_dashboard_stats made outside any try statement of   *)
(* the helpers: the exception reaches the except of api_dashboard          *)
DirectQueries ==
    { "today_events", "last_hour_events", "in_queue", "completed_today",
      "longest_wait", "in_queue_now", "first_event", "completed_last_hour",
      "queue_details" }

(* the queries made inside a try statement of their helper, which answers  *)
(* a default: _calculate_avg_wait_time(limit=20), the same with limit=10,  *)
(* _get_recent_completions                                                 *)
GuardedQueries == { "avg_wait_20", "avg_wait_10", "recent_completions" }

(* jsonify(...), 200 *)
Served(kind, failing, payload) ==
    [ kind |-> kind, code |-> 200, store_failed |-> failing, payload |-> payload ]

(* jsonify({"error": str(e)}), 500 *)
Failed(kind, failing) ==
    [ kind |-> kind, code |-> 500, store_failed |-> failing ]

(* GET /api/dashboard *)
DashboardRead(t, failing) ==
    /\ t >= now
    /\ now' = t
    /\ IF failing \in DirectQueries
       THEN resp' = Failed("dashboard", failing)
       ELSE \E avg20 \in IF failing = "avg_wait_20"
                         THEN { 0 }
                         ELSE CalculateAvgWaitTime(events, DashboardAvgLimit),
               avg10 \in IF failing = "avg_wait_10"
                         THEN { 0 }
                         ELSE CalculateAvgWaitTime(events, AvgWaitLimit),
               first \in ByQueueTime(OpenJoins(events)),
               rc \in ByExitTimeDesc(JourneyRows(events)),
               qd \in ByQueueTime(OpenJoins(events)) :
                 resp' = Served("dashboard", failing,
                            DashboardStats(events, t, avg20,
                                OperationalMetrics(events, t, first, avg10),
                                IF failing = "recent_completions"
                                THEN <<>>
                                ELSE RecentCompletions(rc, CompletionsLimit),
                                QueueDetails(qd, t)))
    /\ UNCHANGED <<events, calls>>

(* GET /api/status/<token_id>: the query of _get_token_status is made      *)
(* outside any try statement, that of _estimate_wait_time inside one       *)
StatusRead(token_id, t, failing) ==
    /\ t >= now
    /\ now' = t
    /\ IF failing = "token_events"
       THEN resp' = Failed("status", failing)
       ELSE \E o \in ByTimestamp(TokenEvents(events, token_id)),
               est \in IF failing = "estimate"
                       THEN { DefaultEstimate }
                       ELSE EstimateWaitTime(events) :
                 resp' = Served("status", failing, TokenStatus(token_id, o, est))
    /\ UNCHANGED <<events, calls>>

(* GET /health *)
HealthRead(failing) ==
    /\ IF failing = "event_count"
       THEN resp' = [ kind |-> "health", code |-> 500, status |-> "error",
                      store_failed |-> failing ]
       ELSE resp' = Served("health", failing,
                           [ status |-> "ok",
                             total_events |-> GetEventCount(events) ])
    /\ UNCHANGED <<events, now, calls>>

StoreItems ==
    { Item("001", "", "QUEUE_JOIN", SessionId, "d1", 0),
      Item("001", "", "EXIT", SessionId, "d1", 0) }

NextStore ==
    \/ \E body \in Bodies(StoreItems, 1), t \in IngestTimes : Ingest(body, t)
    \/ \E t \in IngestTimes,
          failing \in { "none" } \cup DirectQueries \cup GuardedQueries :
            DashboardRead(t, failing)
    \/ \E t \in IngestTimes, failing \in { "none", "token_events", "estimate" } :
            StatusRead("001", t, failing)
    \/ \E failing \in { "none", "event_count" } : HealthRead(failing)

SpecStore == Init /\ [][NextStore]_vars

---------------------------------------------------------------------------
(* The derivation of the operational metrics on its own: the three counts  *)
(* are drawn around the thresholds, then the derivation is applied         *)

QueueLengths ==
    { 0, QueueModerate, QueueModerate + 1, QueueWarn, QueueWarn + 1,
      QueueCritical, QueueCritical + 1 }

LongestWaits ==
    { -1, 0, WaitModerate, WaitModerate + 1, WaitWarn, WaitWarn + 1,
      WaitCritical, WaitCritical + 1 }

CompletionCounts == 0..(MaxPerHour + 1)

InitMetrics ==
    /\ events = <<>>
    /\ now = T0
    /\ calls = [ c \in {} |-> 0 ]
    /\ \E q \in QueueLengths, w \in LongestWaits, c \in CompletionCounts :
            resp = [ kind |-> "counts", in_queue |-> q, longest_wait |-> w,
                     completed_last_hour |-> c ]

Derive ==
    /\ resp.kind = "counts"
    /\ resp' = DerivedMetrics(resp.in_queue, resp.longest_wait,
                              resp.completed_last_hour)
    /\ UNCHANGED <<events, now, calls>>

NextMetrics == Derive

SpecMetrics == InitMetrics /\ [][NextMetrics]_vars

(* every request is served whole; an ingestion request carries one item *)
Next ==
    \/ \E body \in Bodies(RawItems, 1), t \in Times : Ingest(body, t)
    \/ \E t \in Times : ApiDashboard(t)
    \/ \E token_id \in StatusTokens, t \in Times : ApiStatus(token_id, t)
    \/ \E limit \in Limits : AvgWaitTime(limit)
    \/ HealthCheck
    \/ ApiStats

Spec == Init /\ [][Next]_vars

---------------------------------------------------------------------------
(* Properties of ingestion *)

(* the items the calls have processed so far that reached log_event: which *)
(* call, which position of its batch, the logical event, the outcome       *)
Logged ==
    { [ c |-> c, i |-> i,
        key |-> EventKey(Normalize(calls[c].items[i])),
        outcome |-> calls[c].outcomes[i] ] :
        <<c, i>> \in { p \in (DOMAIN calls) \X (1..MaxBatch + 1) :
                         /\ p[2] <= Len(calls[p[1]].outcomes)
                         /\ calls[p[1]].items[p[2]].isDict
                         /\ ~TooLong(Normalize(calls[p[1]].items[p[2]])) } }

LoggedAs(K) == { p \in Logged : p.key = K }

StoredAs(K) == { i \in 1..Len(events) : EventKey(events[i]) = K }

(* C1: a logical event (uid or token_id, stage, session_id, device_id)     *)
(* submitted k >= 1 times, in one batch or over several, is reported       *)
(* inserted exactly once and duplicate k - 1 times, and is stored as       *)
(* exactly one row.                                                        *)
C1_Idempotent ==
    \A K \in { p.key : p \in Logged } :
        /\ Cardinality({ p \in LoggedAs(K) : p.outcome = "inserted" }) = 1
        /\ Cardinality({ p \in LoggedAs(K) : p.outcome = "duplicate" })
             = Cardinality(LoggedAs(K)) - 1
        /\ Cardinality(StoredAs(K)) = 1

(* the same event submitted three times or more, twice within one batch    *)
(* and again by another call                                               *)
C1_Witness ==
    \E K \in { p.key : p \in Logged } :
        /\ Cardinality(LoggedAs(K)) >= 3
        /\ \E p1, p2, p3 \in LoggedAs(K) :
              p1.c = p2.c /\ p1.i # p2.i /\ p3.c # p1.c
        /\ \A c \in DOMAIN calls : calls[c].pc = "done"

---------------------------------------------------------------------------
(* Properties of the queue membership *)

HasStage(log, tok, stage) ==
    \E i \in 1..Len(log) :
        log[i].token_id = tok /\ log[i].session_id = SessionId /\ log[i].stage = stage

(* the tokens with a QUEUE_JOIN in the session and no EXIT in it *)
Membership(log) ==
    { tok \in { log[i].token_id : i \in 1..Len(log) } :
        HasStage(log, tok, "QUEUE_JOIN") /\ ~HasStage(log, tok, "EXIT") }

ListedTokens(r) == { r.queue_details[i].token_id : i \in 1..Len(r.queue_details) }

(* C3: the tokens listed in queue_details, and counted as in_queue, are    *)
(* exactly the tokens with a QUEUE_JOIN in the configured session and no   *)
(* EXIT of the same token and session.                                     *)
C3_Membership ==
    resp.kind = "dashboard" =>
        /\ ListedTokens(resp) = Membership(events)
        /\ resp.stats.in_queue = Cardinality(Membership(events))

(* a dashboard read of a log where a listed token has an EXIT in another   *)
(* session, and another token has its QUEUE_JOIN in another session        *)
C3_Witness ==
    /\ resp.kind = "dashboard"
    /\ \E tok \in ListedTokens(resp) :
          \E i \in 1..Len(events) :
              /\ events[i].token_id = tok
              /\ events[i].stage = "EXIT"
              /\ events[i].session_id # SessionId
    /\ \E i \in 1..Len(events) :
          /\ events[i].stage = "QUEUE_JOIN"
          /\ events[i].session_id # SessionId
          /\ events[i].token_id \notin ListedTokens(resp)

(* an EXIT of the token in the configured session is appended by this step *)
ExitAppended(tok) ==
    \E i \in (Len(events) + 1)..Len(events') :
        /\ events'[i].token_id = tok
        /\ events'[i].session_id = SessionId
        /\ events'[i].stage = "EXIT"

(* C4: when a token is in the membership and an EXIT of that token and     *)
(* session is appended, a membership query of the log after the step does  *)
(* not list the token, whatever order the rows come in.                    *)
C4_ExitRemoves ==
    [][ \A q \in OpenJoins(events) :
            ExitAppended(q.token_id) =>
                \A o \in ByQueueTime(OpenJoins(events')) :
                    \A i \in 1..Len(o) :
                        QueueDetails(o, now')[i].token_id # q.token_id ]_vars

(* a dashboard read after a token joined and then exited: another token is *)
(* listed, the one that exited is not                                      *)
C4_Witness ==
    /\ resp.kind = "dashboard"
    /\ ListedTokens(resp) # {}
    /\ \E i, j \in 1..Len(events) :
          /\ i < j
          /\ events[i].stage = "QUEUE_JOIN" /\ events[j].stage = "EXIT"
          /\ events[i].session_id = SessionId /\ events[j].session_id = SessionId
          /\ events[i].token_id = events[j].token_id
          /\ events[i].token_id \notin ListedTokens(resp)

(* the un-exited QUEUE_JOIN rows of a token in the session *)
OpenJoinsOf(log, tok) ==
    { i \in 1..Len(log) :
        /\ log[i].token_id = tok /\ log[i].session_id = SessionId
        /\ log[i].stage = "QUEUE_JOIN"
        /\ tok \in Membership(log) }

(* C5: a token with several un-exited QUEUE_JOIN rows is listed once, with *)
(* the minutes waited of its earliest such join.                           *)
C5_ListedOnce ==
    resp.kind = "dashboard" =>
        \A i, j \in 1..Len(resp.queue_details) :
            LET a == resp.queue_details[i]
                b == resp.queue_details[j]
            IN  /\ (a.token_id = b.token_id => i = j)
                /\ \A k \in OpenJoinsOf(events, a.token_id) :
                      a.time_in_service_minutes >= MinutesBetween(now, events[k].timestamp)

(* C6: queue_details is in ascending order of QUEUE_JOIN timestamp with    *)
(* positions 1..n, rows of equal timestamp in ascending order of id.       *)
C6_Ordered ==
    resp.kind = "dashboard" =>
        \A i, j \in 1..Len(resp.queue_details) :
            LET a == resp.queue_details[i]
                b == resp.queue_details[j]
            IN  /\ a.position = i
                /\ i < j =>
                      \/ events[a.q_id].timestamp < events[b.q_id].timestamp
                      \/ /\ events[a.q_id].timestamp = events[b.q_id].timestamp
                         /\ a.q_id < b.q_id

---------------------------------------------------------------------------
(* Properties of the waits *)

(* w is the difference d (in ms) in whole minutes, the fraction dropped *)
WholeMinutes(w, d) ==
    IF d >= 0
    THEN w >= 0 /\ w * MsPerMinute <= d /\ d < (w + 1) * MsPerMinute
    ELSE w <= 0 /\ (w - 1) * MsPerMinute < d /\ d <= w * MsPerMinute

(* C7: the wait reported for a completed journey, in recent completions    *)
(* and in the token status, is exit time - queue join time in whole        *)
(* minutes, the fraction dropped and never rounded up.                     *)
C7_TruncatedWait ==
    /\ resp.kind = "dashboard" =>
          \A i \in 1..Len(resp.recent_completions) :
              LET c == resp.recent_completions[i]
              IN  WholeMinutes(c.wait_minutes,
                               events[c.e_id].timestamp - events[c.q_id].timestamp)
    /\ (resp.kind = "status" /\ resp.queue_join # NULL /\ resp.exit # NULL) =>
          /\ resp.has_wait_time
          /\ WholeMinutes(resp.wait_time_minutes, resp.exit - resp.queue_join)

(* a journey of 37 minutes 45 seconds, reported as 37 *)
C7_Witness ==
    /\ resp.kind = "dashboard"
    /\ \E i \in 1..Len(resp.recent_completions) :
          LET c == resp.recent_completions[i]
          IN  /\ events[c.e_id].timestamp - events[c.q_id].timestamp
                   = 37 * MsPerMinute + 45 * MsPerSecond
              /\ c.wait_minutes = 37

(* the mean, truncated, of the whole-minute waits of the journeys *)
MeanOfWholeMinutes(journeys) ==
    IF Len(journeys) = 0
    THEN 0
    ELSE Trunc(SumSeq([ i \in 1..Len(journeys) |->
                          Trunc(journeys[i].e.timestamp - journeys[i].q.timestamp,
                                MsPerMinute) ]),
               Len(journeys))

(* C8: _calculate_avg_wait_time(limit=N) is the mean, truncated to an      *)
(* integer, of the whole-minute waits of the N journeys with the latest    *)
(* exit times.                                                             *)
C8_MeanOfWholeMinuteWaits ==
    resp.kind = "avg_wait" =>
        \E o \in ByExitTimeDesc(JourneyRows(events)) :
            resp.avg_wait = MeanOfWholeMinutes(Limit(o, resp.limit))

(* no token of the session has both a QUEUE_JOIN and an EXIT *)
NoCompletedJourney ==
    \A i, j \in 1..Len(events) :
        ~ /\ events[i].token_id = events[j].token_id
          /\ events[i].session_id = SessionId /\ events[j].session_id = SessionId
          /\ events[i].stage = "QUEUE_JOIN" /\ events[j].stage = "EXIT"

WaitAlerts(r) ==
    { i \in 1..Len(r.operational.alerts) : r.operational.alerts[i].about = "wait" }

(* C9 as stated: with no completed journey the average wait is 0, no alert *)
(* about the longest wait is emitted, and the call answers normally.       *)
C9_NoWaitAlerts ==
    (resp.kind = "dashboard" /\ NoCompletedJourney) =>
        /\ resp.code = 200
        /\ resp.stats.avg_wait_minutes = 0
        /\ WaitAlerts(resp) = {}

(* C9 amended: with no completed journey the average wait is 0 and the     *)
(* call answers normally; an alert about the longest wait is emitted only  *)
(* if a token in the queue has waited more than 45 minutes.                *)
C9_NoDataDefaults ==
    /\ (resp.kind = "dashboard" /\ NoCompletedJourney) =>
          /\ resp.code = 200
          /\ resp.stats.avg_wait_minutes = 0
          /\ (\A tok \in Membership(events) : \A k \in OpenJoinsOf(events, tok) :
                  now - events[k].timestamp < (WaitWarn + 1) * MsPerMinute)
                => WaitAlerts(resp) = {}
    /\ (resp.kind = "avg_wait" /\ NoCompletedJourney) => resp.avg_wait = 0

(* a dashboard read with tokens waiting 37 minutes, none yet completed *)
C9_Witness ==
    /\ resp.kind = "dashboard"
    /\ NoCompletedJourney
    /\ Membership(events) # {}
    /\ resp.stats.longest_wait_current = 37
    /\ WaitAlerts(resp) = {}

(* C10: estimated_wait_new is the average wait over the last 10 completed  *)
(* journeys plus 2 minutes per token in the queue when there is a          *)
(* completed journey, and 20 when there is none.                           *)
C10_EstimatedWaitNew ==
    resp.kind = "dashboard" =>
        IF NoCompletedJourney
        THEN resp.stats.estimated_wait_new = DefaultEstimate
        ELSE \E avg \in CalculateAvgWaitTime(events, AvgWaitLimit) :
                resp.stats.estimated_wait_new
                    = avg + MinutesPerHead * Cardinality(Membership(events))

---------------------------------------------------------------------------
(* Properties of the operational metrics *)

(* a / b rounded to the nearest integer, for a >= 0 *)
Round(a, b) == (2 * a + b) \div (2 * b)

(* C11: capacity_utilization is the percentage of 12 completions per hour  *)
(* that the completions of the last hour make, rounded to the nearest      *)
(* integer and capped at 100                                               *)
C11_RoundedCapacity ==
    resp.kind = "metrics" =>
        resp.capacity_utilization
            = Min(100, Round(resp.completed_last_hour * 100, MaxPerHour))

(* C12: queue_health is one of good, moderate, warning, critical, the most *)
(* severe level whose rule matches: critical if queue > 20 or wait > 90,   *)
(* warning if queue > 10 or wait > 45, moderate if queue > 5 or wait > 30  *)
C12_QueueHealth ==
    resp.kind = "metrics" =>
        LET q == resp.in_queue
            w == resp.longest_wait
            critical == q > 20 \/ w > 90
            warning == q > 10 \/ w > 45
            moderate == q > 5 \/ w > 30
        IN  /\ resp.queue_health \in {"good", "moderate", "warning", "critical"}
            /\ resp.queue_health = "critical" <=> critical
            /\ resp.queue_health = "warning" <=> (~critical /\ warning)
            /\ resp.queue_health = "moderate" <=> (~critical /\ ~warning /\ moderate)
            /\ resp.queue_health = "good" <=> (~critical /\ ~warning /\ ~moderate)

(* a queue of 6, moderate on its own, with a wait over 90 minutes is        *)
(* critical                                                                *)
C12_Witness ==
    /\ resp.kind = "metrics"
    /\ resp.in_queue = 6
    /\ resp.longest_wait = 91
    /\ resp.queue_health = "critical"

(* the findings in their fixed order, each with the condition it is        *)
(* emitted under                                                           *)
Findings(q, w, c) ==
    << [ applies |-> q > 10, level |-> "warning", about |-> "queue" ],
       [ applies |-> q > 20, level |-> "critical", about |-> "queue" ],
       [ applies |-> w > 45, level |-> "warning", about |-> "wait" ],
       [ applies |-> w > 90, level |-> "critical", about |-> "wait" ],
       [ applies |-> c > 90, level |-> "info", about |-> "capacity" ] >>

Applies(f) == f.applies

Finding(s) == [ i \in 1..Len(s) |-> <<s[i].level, s[i].about>> ]

(* C13: the alerts are exactly the findings that apply, each on its own    *)
(* strict threshold (queue > 10, queue > 20, wait > 45, wait > 90,         *)
(* capacity > 90), in that order; a critical finding comes with its warning *)
C13_Alerts ==
    resp.kind = "metrics" =>
        Finding(resp.alerts)
            = Finding(SelectSeq(Findings(resp.in_queue, resp.longest_wait,
                                         resp.capacity_utilization), Applies))

(* all five findings at once, the warnings before their criticals *)
C13_Witness ==
    /\ resp.kind = "metrics"
    /\ resp.in_queue = 21
    /\ resp.longest_wait = 91
    /\ Finding(resp.alerts)
         = << <<"warning", "queue">>, <<"critical", "queue">>,
              <<"warning", "wait">>, <<"critical", "wait">>,
              <<"info", "capacity">> >>
---------------------------------------------------------------------------
(* Properties of the ingestion of a batch, on the request served last *)

LastCall == calls[Server]

(* the request served last got past the checks of its body *)
Accepted ==
    /\ LastCall.pc = "done"
    /\ LastCall.body.isList
    /\ Len(LastCall.body.items) \in 1..1000

Sent == LastCall.body.items

(* an item that is not a structured record *)
NotRecord(item) == ~item.isDict

(* a record with a normalized field over its length limit *)
Oversized(item) ==
    /\ item.isDict
    /\ \/ Len(Normalize(item).token_id) > 100
       \/ Len(Normalize(item).uid) > 100
       \/ Len(Normalize(item).stage) > 50

(* a record of valid lengths the loop body raises an exception on *)
Raises(item) ==
    item.isDict /\ ~Oversized(item) /\ ParseTimestamp(item).raised

Failing(item) == NotRecord(item) \/ Oversized(item) \/ Raises(item)

(* a row of the log holds the logical event of item *)
Stored(item) ==
    \E i \in 1..Len(events) : EventKey(events[i]) = EventKey(Normalize(item))

(* C14: for every accepted batch each item resolves to exactly one of      *)
(* inserted, duplicate, error: received is the number of items sent and    *)
(* inserted + duplicates + errors = received                               *)
C14_SummaryAddsUp ==
    Accepted =>
        /\ Len(LastCall.outcomes) = Len(Sent)
        /\ \A i \in 1..Len(LastCall.outcomes) :
               LastCall.outcomes[i] \in {"inserted", "duplicate", "error"}
        /\ LastCall.response.status = "ok"
        /\ LastCall.response.received = Len(Sent)
        /\ LastCall.response.inserted + LastCall.response.duplicates
             + LastCall.response.errors = LastCall.response.received

(* a batch of three with one item of each outcome *)
C14_Witness ==
    /\ Accepted
    /\ LastCall.outcomes = << "error", "inserted", "duplicate" >>
    /\ LastCall.response.received = 3
    /\ LastCall.response.inserted = 1
    /\ LastCall.response.duplicates = 1
    /\ LastCall.response.errors = 1

(* C15: a failing item of a batch (not a record, an oversized field, an    *)
(* exception while it is logged) counts as exactly one error and does not  *)
(* abort the batch: every other item is processed and resolves to          *)
(* inserted or duplicate, and the call returns status ok                   *)
C15_FailureIsolated ==
    Accepted =>
        /\ LastCall.response.status = "ok"
        /\ Len(LastCall.outcomes) = Len(Sent)
        /\ \A i \in 1..Len(Sent) :
               IF Failing(Sent[i])
               THEN LastCall.outcomes[i] = "error"
               ELSE /\ LastCall.outcomes[i] \in {"inserted", "duplicate"}
                    /\ Stored(Sent[i])
        /\ LastCall.response.errors
             = Cardinality({ i \in 1..Len(Sent) : Failing(Sent[i]) })

(* five items, the third malformed: received = 5, errors = 1, the items    *)
(* after the third processed                                               *)
C15_Witness ==
    /\ Accepted
    /\ Sent = FiveItems
    /\ LastCall.response.received = 5
    /\ LastCall.response.errors = 1
    /\ LastCall.outcomes
         = << "inserted", "inserted", "error", "duplicate", "inserted" >>

C17_OversizedNeverStored ==
    /\ \A i \in 1..Len(events) :
           /\ Len(events[i].token_id) <= 100
           /\ Len(events[i].uid) <= 100
           /\ Len(events[i].stage) <= 50
    /\ Accepted =>
           \A i \in 1..Len(Sent) :
               (NotRecord(Sent[i]) \/ Oversized(Sent[i])) =>
                   LastCall.outcomes[i] = "error"

(* a token_id of 101 characters refused while one of 100 is in the log *)
C17_Witness ==
    /\ Accepted
    /\ Len(Sent) = 2
    /\ Len(Normalize(Sent[1]).token_id) = 101
    /\ LastCall.outcomes[1] = "error"
    /\ \E i \in 1..Len(events) : Len(events[i].token_id) = 100

(* the value of the timestamp field the item is read for *)
TsVal(item) ==
    IF Truthy(item.timestamp_ms) THEN item.timestamp_ms ELSE item.timestampMs

(* a timestamp value that cannot be converted to a time: not a number, or  *)
(* a number out of the representable range                                 *)
Unconvertible(v) == v.json # "number" \/ v.range # "ok"

(* C18: a valid item whose timestamp cannot be converted to a time is      *)
(* still logged, with the time of ingestion as its timestamp: it resolves  *)
(* to inserted or duplicate, never to error                                *)
C18_TimestampFallback ==
    Accepted =>
        \A i \in 1..Len(Sent) :
            ( /\ ~NotRecord(Sent[i])
              /\ ~Oversized(Sent[i])
              /\ Unconvertible(TsVal(Sent[i])) ) =>
                /\ LastCall.outcomes[i] \in {"inserted", "duplicate"}
                /\ LastCall.outcomes[i] = "inserted" =>
                       \E k \in 1..Len(events) :
                           /\ EventKey(events[k]) = EventKey(Normalize(Sent[i]))
                           /\ events[k].timestamp = now
---------------------------------------------------------------------------
(* Properties of the log under reads, and of the session of the metrics *)

Reads == { "dashboard", "status", "avg_wait", "health", "stats" }

(* C19: the log is append-only: a call only adds rows after the rows the   *)
(* log holds, which stay as they are, and a read (dashboard with its        *)
(* operational metrics and queue details, token status, average wait,      *)
(* session statistics, health check) leaves the log as it is               *)
C19_AppendOnly ==
    [][ /\ Len(events') >= Len(events)
        /\ SubSeq(events', 1, Len(events)) = events
        /\ resp'.kind \in Reads => events' = events ]_vars

(* the session statistics read from a log of two rows or more *)
C19_Witness ==
    /\ resp.kind = "stats"
    /\ Len(events) >= 2
    /\ resp.recent_events = SeqToSet(events)

(* the rows of the configured session, each with its id *)
InSession(e) == e.session_id = SessionId

SessionEvents(log) == SelectSeq(log, InSession)

(* the responses GET /api/dashboard may give on a log at time t *)
DashboardsOf(log, t) ==
    { DashboardStats(log, t, c[1], OperationalMetrics(log, t, c[2], c[3]),
                     RecentCompletions(c[4], CompletionsLimit),
                     QueueDetails(c[5], t)) :
        c \in CalculateAvgWaitTime(log, DashboardAvgLimit)
               \X ByQueueTime(OpenJoins(log))
               \X CalculateAvgWaitTime(log, AvgWaitLimit)
               \X ByExitTimeDesc(JourneyRows(log))
               \X ByQueueTime(OpenJoins(log)) }

(* the responses GET /api/status/<token_id> may give on a log *)
StatusesOf(log, token_id) ==
    { TokenStatus(token_id, c[1], c[2]) :
        c \in ByTimestamp(TokenEvents(log, token_id)) \X EstimateWaitTime(log) }

(* C20: the events of other sessions do not influence the derived metrics: *)
(* what a read answers on the log (membership, queue length, wait          *)
(* statistics, queue_health, alerts, token status) is what it answers on   *)
(* the events of the configured session alone                              *)
C20_SessionIsolation ==
    /\ resp.kind = "dashboard" =>
           resp \in DashboardsOf(SessionEvents(events), now)
    /\ resp.kind = "status" =>
           resp \in StatusesOf(SessionEvents(events), resp.token_id)
    /\ resp.kind = "avg_wait" =>
           resp.avg_wait \in CalculateAvgWaitTime(SessionEvents(events), resp.limit)

(* token 001 is in the queue of the session although the log holds an EXIT *)
(* of token 001 in another session                                         *)
C20_Witness ==
    /\ resp.kind = "dashboard"
    /\ resp.stats.in_queue = 1
    /\ \E i \in 1..Len(resp.queue_details) : resp.queue_details[i].token_id = "001"
    /\ \E i \in 1..Len(events) :
           /\ events[i].token_id = "001"
           /\ events[i].stage = "EXIT"
           /\ events[i].session_id # SessionId
---------------------------------------------------------------------------
(* Properties of the journeys and of the token status *)

(* the logs that hold the rows of log ingested in another order: row i of  *)
(* a reordering has id i                                                   *)
Reorderings(log) ==
    { [ i \in 1..Len(log) |-> [ log[p[i]] EXCEPT !.id = i ] ] :
        p \in { p \in [1..Len(log) -> 1..Len(log)] :
                  \A i, j \in 1..Len(log) : i # j => p[i] # p[j] } }

(* C21: the queue membership depends on the set of events of the log, not  *)
(* on the order they were ingested in: the tokens listed are the tokens    *)
(* the membership query gives on the same events ingested in any other     *)
(* order, so a token whose EXIT came before its QUEUE_JOIN is excluded     *)
C21_OrderIndependent ==
    resp.kind = "dashboard" =>
        \A other \in Reorderings(events) :
            /\ ListedTokens(resp) = { q.token_id : q \in OpenJoins(other) }
            /\ resp.stats.in_queue = InQueueCount(other)

(* the EXIT of token 001 was ingested before its QUEUE_JOIN; 001 is not    *)
(* listed                                                                  *)
C21_Witness ==
    /\ resp.kind = "dashboard"
    /\ "001" \notin ListedTokens(resp)
    /\ \E i, j \in 1..Len(events) :
           /\ i < j
           /\ events[i].token_id = "001" /\ events[j].token_id = "001"
           /\ events[i].session_id = SessionId /\ events[j].session_id = SessionId
           /\ events[i].stage = "EXIT" /\ events[j].stage = "QUEUE_JOIN"
(* C22: a journey pairs a QUEUE_JOIN with a later EXIT: every journey of   *)
(* the recent completions and of the wait statistics has an exit time not  *)
(* earlier than its join time, and no reported wait is negative            *)
C22_NoNegativeWait ==
    /\ resp.kind = "dashboard" =>
           /\ \A i \in 1..Len(resp.recent_completions) :
                  LET c == resp.recent_completions[i]
                  IN  /\ events[c.e_id].timestamp >= events[c.q_id].timestamp
                      /\ c.wait_minutes >= 0
           /\ resp.stats.avg_wait_minutes >= 0
    /\ resp.kind = "avg_wait" => resp.avg_wait >= 0
    /\ (resp.kind = "status" /\ resp.has_wait_time) => resp.wait_time_minutes >= 0
(* the EXIT rows of the configured session *)
SessionExits(log) ==
    { i \in 1..Len(log) : log[i].stage = "EXIT" /\ log[i].session_id = SessionId }

(* C23: an EXIT yields at most one completed journey: a token with several *)
(* QUEUE_JOINs and one EXIT is one completion in completed_today, in the   *)
(* completions of the last hour behind capacity_utilization, and in the    *)
(* window of recent journeys                                               *)
C23_OneJourneyPerExit ==
    resp.kind = "dashboard" =>
        /\ resp.stats.completed_today <= Cardinality(SessionExits(events))
        /\ resp.stats.capacity_utilization
             <= CapacityUtilization(Cardinality(SessionExits(events)))
        /\ \A i, j \in 1..Len(resp.recent_completions) :
               i # j => resp.recent_completions[i].e_id # resp.recent_completions[j].e_id
(* C24: the status of a token is not_checked_in when it has no QUEUE_JOIN  *)
(* and no EXIT in the session, in_queue when it has joined and not exited, *)
(* complete when it has exited; wait_time_minutes is reported only with    *)
(* the status complete                                                     *)
C24_TokenStatus ==
    resp.kind = "status" =>
        LET joined == HasStage(events, resp.token_id, "QUEUE_JOIN")
            exited == HasStage(events, resp.token_id, "EXIT")
        IN  /\ resp.status \in {"not_checked_in", "in_queue", "complete"}
            /\ resp.status = "not_checked_in" <=> (~joined /\ ~exited)
            /\ resp.status = "in_queue" <=> (joined /\ ~exited)
            /\ resp.status = "complete" <=> exited
            /\ resp.has_wait_time => resp.status = "complete"
(* C25: every derived numeric field of the dashboard is a plain integer    *)
(* (throughput_per_hour, longest_wait_current, avg_wait_minutes,           *)
(* estimated_wait_new and the counts), and capacity_utilization lies in    *)
(* 0..100                                                                  *)
C25_PlainIntegers ==
    resp.kind = "dashboard" =>
        /\ resp.stats.throughput_per_hour.half = 0
        /\ resp.stats.today_events \in Int
        /\ resp.stats.last_hour_events \in Int
        /\ resp.stats.in_queue \in Int
        /\ resp.stats.completed_today \in Int
        /\ resp.stats.avg_wait_minutes \in Int
        /\ resp.stats.longest_wait_current \in Int
        /\ resp.stats.estimated_wait_new \in Int
        /\ resp.stats.service_uptime_minutes \in Int
        /\ resp.stats.capacity_utilization \in 0..100
(* C26: when the store fails during a query made while a read is served    *)
(* (dashboard, token status, health), the caller gets a failed response,   *)
(* never a payload with a zero, an empty list or a default in its place    *)
C26_FailureSurfaced ==
    (resp.kind \in {"dashboard", "status", "health"}
        /\ resp.store_failed # "none") => resp.code >= 500
(* C27: longest_wait_current is the age in whole minutes, at the time of   *)
(* the query, of the earliest QUEUE_JOIN of the tokens in the queue, and 0 *)
(* when the queue is empty; no entry of the membership list of the same    *)
(* log and instant has waited longer                                       *)
C27_LongestWait ==
    resp.kind = "dashboard" =>
        /\ resp.stats.longest_wait_current
             = IF OpenJoins(events) = {}
               THEN 0
               ELSE MinutesBetween(now, Least({ q.timestamp : q \in OpenJoins(events) }))
        /\ \A i \in 1..Len(resp.queue_details) :
               resp.stats.longest_wait_current
                   >= resp.queue_details[i].time_in_service_minutes
---------------------------------------------------------------------------
(* Properties of the normalization of an ingested item *)

(* the first of two names an item gives a value under, else the default *)
Either(a, b, default) == IF a # "" THEN a ELSE IF b # "" THEN b ELSE default

(* the stage texts of the items that are not upper case or have blanks     *)
(* around them                                                             *)
Uncanonical ==
    { " exit ", "exit", "queue_join", " queue_join ", "   ", " " \o Fifty \o " " }

(* the request served last carried one item, which was inserted as the     *)
(* last row of the log                                                     *)
InsertedOne ==
    /\ Accepted
    /\ Len(Sent) = 1
    /\ LastCall.outcomes = << "inserted" >>

(* the row of the item is stored with what the item gives under either     *)
(* name, and the defaults for stage, session_id and device_id              *)
StoredNormalized(item, row) ==
    /\ row.token_id = Either(item.token_id, item.tokenId, "UNKNOWN")
    /\ row.session_id = Either(item.session_id, item.sessionId, "UNKNOWN")
    /\ row.device_id = Either(item.device_id, item.deviceId, "mobile")
    /\ row.stage \notin Uncanonical
    /\ row.stage = (CASE item.stage \in {"exit", " exit "} -> "EXIT"
                      [] item.stage \in {"queue_join", " queue_join "} -> "QUEUE_JOIN"
                      [] item.stage \in {"", "   "} -> "UNKNOWN"
                      [] OTHER -> item.stage)
    /\ row.timestamp
         = (IF item.timestamp_ms # Number(0) THEN item.timestamp_ms.ms
            ELSE IF item.timestampMs # Number(0) THEN item.timestampMs.ms
            ELSE now)

(* C28 as stated: an item is stored normalized, and a missing uid is       *)
(* stored as the token_id of the item                                      *)
C28_UidFromTokenId ==
    InsertedOne =>
        LET item == Sent[1]
            row == events[Len(events)]
        IN  /\ StoredNormalized(item, row)
            /\ row.uid = (IF item.uid # "" THEN item.uid ELSE row.token_id)

(* C28: ingestion normalizes an item before it stores it: either naming    *)
(* convention is read, stage is trimmed and upper-cased and UNKNOWN when   *)
(* blank, a missing session_id is UNKNOWN and a missing device_id mobile;  *)
(* a missing uid is stored as the serial of the item when it has one,      *)
(* else as its token_id                                                    *)
C28_Normalized ==
    InsertedOne =>
        LET item == Sent[1]
            row == events[Len(events)]
        IN  /\ StoredNormalized(item, row)
            /\ row.uid = (IF item.uid # "" THEN item.uid
                          ELSE IF item.serial # "" THEN item.serial
                          ELSE row.token_id)

(* the item with the camelCase names and a padded lower-case stage, stored *)
C28_Witness ==
    /\ InsertedOne
    /\ Sent[1].tokenId = "002"
    /\ events[Len(events)].token_id = "002"
    /\ events[Len(events)].stage = "QUEUE_JOIN"
    /\ events[Len(events)].session_id = SessionId
    /\ events[Len(events)].device_id = "d2"
    /\ events[Len(events)].timestamp = Earlier
---------------------------------------------------------------------------
(* Properties relating the token status to the dashboard *)

(* the tokens the queue query of the dashboard returns on the log *)
QueuedTokens == { q.token_id : q \in OpenJoins(events) }

(* C29: the status lookup reports in_queue for a token exactly when the    *)
(* queue membership computed on the same log contains the token, also for  *)
(* a token with an EXIT followed by a later QUEUE_JOIN                     *)
C29_StatusAgreesWithMembership ==
    resp.kind = "status" =>
        (resp.status = "in_queue" <=> resp.token_id \in QueuedTokens)

(* C30: the estimated wait of the token status is a value estimated_wait_new *)
(* of the operational metrics takes on the same log                        *)
C30_SameEstimate ==
    resp.kind = "status" =>
        \E avg10 \in CalculateAvgWaitTime(events, AvgWaitLimit) :
            resp.estimated_wait = EstimatedWaitNew(avg10, InQueueCount(events))
====
